---- MODULE Spec2Model ----
(***************************************************************************)
(* SAT-based Sudoku solver (main.py): the clause encoder, the clue         *)
(* injection, the call to the SAT engine, the decoder, and the clue        *)
(* removal experiment that drives them.                                    *)
(***************************************************************************)
EXTENDS Integers, Sequences, FiniteSets, TLC

VARIABLES
    first,              \* the puzzle array of the experiment
    hard,               \* the puzzle of the running trial, clues removed one by one
    current,            \* the array handed to solve, overwritten in place
    nz,                 \* the index arrays i, j of numpy.nonzero(hard), as pairs
    current_number,     \* the bucket index of the running trial
    current_iteration,  \* the trial counter
    solve_time,         \* numpy.zeros(82): accumulated time per bucket
    solve_times,        \* the list of the durations of all solver calls
    clauses,            \* the clause list a caller saw solve submit; the
                        \* experiment keeps none of it (it is local to solve)
    sol,                \* what the SAT engine returned to the latest solve call
    given,              \* the grid as it was when the latest solve call began
    rng,                \* the state of the generator behind random.randint
    pc                  \* where the program is

vars == <<first, hard, current, nz, current_number, current_iteration,
          solve_time, solve_times, clauses, sol, given, rng, pc>>

----------------------------------------------------------------------------
(* Bounds of the model *)

MaxIterations == 1      \* trials of the experiment that are explored
MaxCalls == 2           \* solve calls a caller makes on one array
MaxSeed == 3            \* the generator starts in one of the states 0..MaxSeed

----------------------------------------------------------------------------
(* Program constants *)

iteration_count == 1000
Buckets == 82
None == -1              \* the value of a function that falls off its end

Min(S) == CHOOSE x \in S : \A y \in S : x <= y
Max(S) == CHOOSE x \in S : \A y \in S : x >= y
Abs(x) == IF x < 0 THEN -x ELSE x

RECURSIVE Flatten(_)
Flatten(ss) == IF ss = <<>> THEN <<>> ELSE Head(ss) \o Flatten(Tail(ss))

----------------------------------------------------------------------------
(* Variable numbering and the puzzle-independent clauses *)

\* a wrong row stride
v_stride80(i, j, d) == 80 * (i - 1) + 9 * (j - 1) + d

v(i, j, d) == 81 * (i - 1) + 9 * (j - 1) + d

\* the clauses of one cell: one of the 9 digits, and not two digits at once
cell_clauses(i, j) ==
    << [d \in 1..9 |-> v(i, j, d)] >> \o
    Flatten([d \in 1..9 |->
        [k \in 1..(9 - d) |-> <<-v(i, j, d), -v(i, j, d + k)>>]])

\* the last cell of the list is never paired
valid_skip_last(cells) ==
    Flatten([i \in 1..Len(cells) |-> Flatten([j \in 1..(Len(cells) - 1) |->
        IF i < j
        THEN [d \in 1..9 |-> <<-v(cells[i][1], cells[i][2], d),
                               -v(cells[j][1], cells[j][2], d)>>]
        ELSE <<>>])])

\* i <= j in place of i < j: a cell is also paired with itself
valid_with_self(cells) ==
    Flatten([i \in 1..Len(cells) |-> Flatten([j \in 1..Len(cells) |->
        IF i <= j
        THEN [d \in 1..9 |-> <<-v(cells[i][1], cells[i][2], d),
                               -v(cells[j][1], cells[j][2], d)>>]
        ELSE <<>>])])

\* the 324 clauses that make 9 cells hold distinct values
valid(cells) ==
    Flatten([i \in 1..Len(cells) |-> Flatten([j \in 1..Len(cells) |->
        IF i < j
        THEN [d \in 1..9 |-> <<-v(cells[i][1], cells[i][2], d),
                               -v(cells[j][1], cells[j][2], d)>>]
        ELSE <<>>])])

BoxAnchors == <<1, 4, 7>>

sudoku_clauses ==
    Flatten([i \in 1..9 |-> Flatten([j \in 1..9 |-> cell_clauses(i, j)])])
    \o Flatten([i \in 1..9 |->
            valid([j \in 1..9 |-> <<i, j>>]) \o valid([j \in 1..9 |-> <<j, i>>])])
    \o Flatten([a \in 1..3 |-> Flatten([b \in 1..3 |->
            valid([k \in 1..9 |-> <<BoxAnchors[a] + ((k - 1) % 3),
                                    BoxAnchors[b] + ((k - 1) \div 3)>>])])])

\* the inner loop one short: column 9 is never looked at
clue_clauses_short(grid) ==
    Flatten([i \in 1..9 |-> Flatten([j \in 1..8 |->
        IF grid[i][j] # 0 THEN << <<v(i, j, grid[i][j])>> >> ELSE <<>>])])

\* one unit clause for each digit already known, in row-major order
clue_clauses(grid) ==
    Flatten([i \in 1..9 |-> Flatten([j \in 1..9 |->
        IF grid[i][j] # 0 THEN << <<v(i, j, grid[i][j])>> >> ELSE <<>>])])

----------------------------------------------------------------------------
(* The grids of the source, and the grids the model works with *)

Cells == (1..9) \X (1..9)

Zero == [i \in 1..9 |-> [j \in 1..9 |-> 0]]

\* the puzzle of the experiment
First0 == << <<0, 2, 0, 0, 0, 0, 0, 0, 0>>,
             <<0, 0, 0, 6, 0, 0, 0, 0, 3>>,
             <<0, 0, 4, 0, 0, 0, 0, 0, 0>>,
             <<0, 0, 0, 0, 0, 0, 0, 0, 2>>,
             <<0, 8, 0, 0, 0, 0, 0, 1, 0>>,
             <<6, 0, 0, 0, 0, 0, 0, 0, 0>>,
             <<0, 0, 0, 0, 0, 0, 0, 0, 0>>,
             <<0, 0, 0, 0, 0, 0, 0, 0, 0>>,
             <<0, 0, 0, 0, 0, 0, 0, 0, 0>> >>

\* the completed grid kept in the source as a comment
Full == << <<5, 3, 7, 4, 2, 1, 8, 9, 6>>,
           <<6, 9, 4, 8, 3, 7, 2, 1, 5>>,
           <<2, 1, 8, 9, 6, 5, 7, 4, 3>>,
           <<1, 6, 9, 3, 8, 4, 5, 2, 7>>,
           <<8, 2, 5, 1, 7, 9, 3, 6, 4>>,
           <<7, 4, 3, 6, 5, 2, 1, 8, 9>>,
           <<4, 8, 6, 7, 1, 3, 9, 5, 2>>,
           <<9, 7, 2, 5, 4, 8, 6, 3, 1>>,
           <<3, 5, 1, 2, 9, 6, 4, 7, 8>> >>

\* two of the completions of First0
FirstSolA == << <<1, 2, 3, 4, 5, 7, 6, 8, 9>>,
                <<5, 7, 8, 6, 1, 9, 2, 4, 3>>,
                <<9, 6, 4, 2, 3, 8, 1, 5, 7>>,
                <<3, 1, 5, 7, 4, 6, 8, 9, 2>>,
                <<2, 8, 7, 3, 9, 5, 4, 1, 6>>,
                <<6, 4, 9, 1, 8, 2, 3, 7, 5>>,
                <<4, 3, 2, 5, 7, 1, 9, 6, 8>>,
                <<7, 9, 1, 8, 6, 3, 5, 2, 4>>,
                <<8, 5, 6, 9, 2, 4, 7, 3, 1>> >>

FirstSolB == << <<9, 2, 8, 7, 5, 3, 6, 4, 1>>,
                <<7, 5, 1, 6, 9, 4, 8, 2, 3>>,
                <<3, 6, 4, 8, 2, 1, 9, 7, 5>>,
                <<5, 9, 7, 4, 1, 8, 3, 6, 2>>,
                <<4, 8, 3, 9, 6, 2, 5, 1, 7>>,
                <<6, 1, 2, 5, 3, 7, 4, 9, 8>>,
                <<8, 7, 9, 2, 4, 5, 1, 3, 6>>,
                <<2, 3, 6, 1, 8, 9, 7, 5, 4>>,
                <<1, 4, 5, 3, 7, 6, 2, 8, 9>> >>

Put(g, i, j, d) == [g EXCEPT ![i][j] = d]

RECURSIVE PutAll(_, _, _)
PutAll(g, S, d) ==
    IF S = {} THEN g
    ELSE LET c == CHOOSE x \in S : TRUE
         IN PutAll(Put(g, c[1], c[2], d), S \ {c}, d)

\* Full holds 5 6 / 6 5 in the corners of rows 1, 2 and columns 1, 9:
\* exchanging them gives a second completed grid
FullSwapped == Put(Put(Put(Put(Full, 1, 1, 6), 1, 9, 5), 2, 1, 5), 2, 9, 6)

\* grids that are not Sudoku solutions
Latin == [i \in 1..9 |-> [j \in 1..9 |-> ((i + j) % 9) + 1]]  \* rows, columns
ColBroken == Put(Put(Full, 1, 1, 3), 1, 2, 5)                  \* rows, boxes
RowBroken == Put(Put(Full, 1, 1, 6), 2, 1, 5)                  \* columns, boxes
BoxBroken == [i \in 1..9 |-> IF i = 1 THEN Full[4]
                             ELSE IF i = 4 THEN Full[1] ELSE Full[i]]

NonZero(g) == {c \in Cells : g[c[1]][c[2]] # 0}
InRange(g) == \A c \in Cells : g[c[1]][c[2]] \in 0..9

IsPermutation(S, g) == {g[c[1]][c[2]] : c \in S} = 1..9
Row(i) == {<<i, j>> : j \in 1..9}
Col(j) == {<<i, j>> : i \in 1..9}
Box(a, b) == {<<3 * (a - 1) + x, 3 * (b - 1) + y>> : x \in 1..3, y \in 1..3}
Groups == {Row(i) : i \in 1..9} \cup {Col(j) : j \in 1..9}
          \cup {Box(a, b) : a \in 1..3, b \in 1..3}

\* a completed Sudoku: every row, column and box is a permutation of 1..9
ValidSudoku(g) ==
    /\ DOMAIN g = 1..9
    /\ \A i \in 1..9 : DOMAIN g[i] = 1..9
    /\ \A S \in Groups : IsPermutation(S, g)

Agrees(g, clues) == \A c \in NonZero(clues) : g[c[1]][c[2]] = clues[c[1]][c[2]]

\* no digit of 1..9 twice in a group, read off the grid itself
Peers == [c \in Cells |-> UNION {S \in Groups : c \in S} \ {c}]
Fits(g, i, j, d) == \A c \in Peers[<<i, j>>] : g[c[1]][c[2]] # d

\* the digits cell k (row-major) can take: its clue, or what fits
Options(g, k) ==
    LET i == ((k - 1) \div 9) + 1
        j == ((k - 1) % 9) + 1
    IN IF g[i][j] # 0 THEN {g[i][j]} ELSE {d \in 1..9 : Fits(g, i, j, d)}

RECURSIVE Completes(_, _)
Completes(g, k) ==
    k > 81 \/ \E d \in Options(g, k) :
                 Completes(Put(g, ((k - 1) \div 9) + 1, ((k - 1) % 9) + 1, d), k + 1)

\* the grid has a valid completion: search over digits, no clauses involved
HasCompletion(g) ==
    /\ \A c \in NonZero(g) :
          g[c[1]][c[2]] \in 1..9 /\ Fits(g, c[1], c[2], g[c[1]][c[2]])
    /\ Completes(g, 1)

----------------------------------------------------------------------------
(* The SAT engine.  An assignment is the set of the literals of the list   *)
(* the engine returns, one literal for every variable.                     *)

\* the engine takes the largest variable named in a clause as the variable count
NumVars(cls) ==
    Max(UNION {{Abs(cls[k][n]) : n \in 1..Len(cls[k])} : k \in 1..Len(cls)})

\* every clause holds a literal of the assignment (clue clauses looked at first)
Satisfies(a, cls) ==
    \A m \in 1..Len(cls) :
        LET c == cls[Len(cls) + 1 - m] IN \E n \in 1..Len(c) : c[n] \in a

\* the literal a clause forces under a partial assignment, if any
UnitOf(c, a) ==
    IF \E n \in 1..Len(c) : c[n] \in a THEN {}
    ELSE LET free == {n \in 1..Len(c) : -c[n] \notin a}
         IN IF Cardinality(free) = 1 THEN {c[CHOOSE n \in free : TRUE]} ELSE {}

Falsified(c, a) == \A n \in 1..Len(c) : -c[n] \in a

Conflict == {0}

\* unit propagation to a fixed point; Conflict when a clause is falsified
\* (intermediate values are bound by a set constructor: computed once)
RECURSIVE Propagate(_, _)
Propagate(a, cls) ==
    IF \E k \in 1..Len(cls) : Falsified(cls[k], a) THEN Conflict
    ELSE CHOOSE r \in
            {IF units = {} THEN a
             ELSE IF \E l \in units : -l \in units THEN Conflict
             ELSE Propagate(a \cup units, cls) :
                units \in {UNION {UnitOf(cls[k], a) : k \in 1..Len(cls)}}} : TRUE

\* a satisfying assignment extending a, or Conflict when there is none
RECURSIVE Search(_, _, _)
Search(a, cls, n) ==
    CHOOSE r \in
        {IF p = Conflict THEN Conflict
         ELSE IF \A x \in 1..n : x \in p \/ -x \in p THEN p
         ELSE CHOOSE q \in
                {IF pos # Conflict THEN pos ELSE Search(p \cup {-x}, cls, n) :
                    <<x, pos>> \in
                        {<<y, Search(p \cup {y}, cls, n)>> :
                            y \in {Min({z \in 1..n : z \notin p /\ -z \notin p})}}} : TRUE :
            p \in {Propagate(a, cls)}} : TRUE

\* the assignment that says of every cell of g which digit it holds
AssignmentOf(g) ==
    {IF g[((k - 1) \div 81) + 1][(((k - 1) % 81) \div 9) + 1] = ((k - 1) % 9) + 1
     THEN k ELSE -k : k \in 1..729}

Flip(a, x) == (a \ {x, -x}) \cup (IF x \in a THEN {-x} ELSE {x})

\* the assignments the modelled engine picks its answer from
Assignments ==
    {AssignmentOf(g) : g \in {Full, FullSwapped, FirstSolA, FirstSolB,
                              Latin, ColBroken, RowBroken, BoxBroken}}
    \cup {Flip(AssignmentOf(Full), 1),        \* cell (1,1) holds 1 and 5
          Flip(AssignmentOf(Full), 5),        \* cell (1,1) holds no digit
          Flip(AssignmentOf(FirstSolA), 2)}   \* cell (1,1) holds 1 and 2

UNSAT == [tag |-> "UNSAT", lits |-> {}]
Model(a) == [tag |-> "list", lits |-> a]
Unset == [tag |-> "unset", lits |-> {}]

\* pycosat.solve: the answers the engine can give for a clause list.  It
\* answers UNSAT exactly when no assignment satisfies every clause.
pycosat_solve(cls) ==
    UNION {IF known # {} THEN {Model(a) : a \in known}
           ELSE {IF found = Conflict THEN UNSAT ELSE Model(found) :
                    found \in {Search({}, cls, NumVars(cls))}} :
              known \in {{a \in Assignments : Satisfies(a, cls)}}}

----------------------------------------------------------------------------
(* solve: encode the grid, ask the engine, record the time, decode in place *)

\* the wall clock is abstracted to one tick per engine call
Durations == {1}

build_clauses(grid) == sudoku_clauses \o clue_clauses(grid)

\* row and column exchanged in the variable read back
read_cell_transposed(s, i, j) ==
    LET ds == {d \in 1..9 : v(j, i, d) \in s.lits}
    IN IF ds = {} THEN None ELSE Min(ds)

\* the digit of cell i, j according to the solution: the first d whose
\* variable is in the list, None when the loop ends without one
read_cell(s, i, j) ==
    LET ds == {d \in 1..9 : v(i, j, d) \in s.lits}
    IN IF ds = {} THEN None ELSE Min(ds)

\* the decoding loop over the array.  "x in sol" raises TypeError when sol
\* is the string "UNSAT"; storing None into an integer array raises
\* TypeError at that cell, the cells before it already overwritten.
decode(grid, s) ==
    IF s.tag # "list" THEN [exc |-> "TypeError", grid |-> grid]
    ELSE CHOOSE r \in
        {IF \A c \in Cells : digits[c[1]][c[2]] # None
         THEN [exc |-> "none", grid |-> digits]
         ELSE [exc |-> "TypeError",
               grid |-> [i \in 1..9 |-> [j \in 1..9 |->
                   IF \A c \in Cells :
                         digits[c[1]][c[2]] = None => 9 * (i - 1) + j < 9 * (c[1] - 1) + c[2]
                   THEN digits[i][j] ELSE grid[i][j]]]] :
            digits \in {[i \in 1..9 |-> [j \in 1..9 |-> read_cell(s, i, j)]]}} : TRUE

\* the time charged to the bucket of the clues left, not of the clues removed
solve_bucket_of_clues_left(grid, number, cls, answer, dt, st, sts) ==
    IF number \notin 0..(Buckets - 1)
    THEN [exc |-> "IndexError", grid |-> grid, clauses |-> cls, sol |-> answer,
          solve_time |-> st, solve_times |-> Append(sts, dt)]
    ELSE decode(grid, answer) @@
         [clauses |-> cls, sol |-> answer,
          solve_time |-> [st EXCEPT ![Buckets - 1 - number] = @ + dt],
          solve_times |-> Append(sts, dt)]

\* the whole of solve(grid, current_number) for one answer of the engine
solve(grid, number, cls, answer, dt, st, sts) ==
    IF number \notin 0..(Buckets - 1)
    THEN [exc |-> "IndexError", grid |-> grid, clauses |-> cls, sol |-> answer,
          solve_time |-> st, solve_times |-> Append(sts, dt)]
    ELSE decode(grid, answer) @@
         [clauses |-> cls, sol |-> answer,
          solve_time |-> [st EXCEPT ![number] = @ + dt],
          solve_times |-> Append(sts, dt)]

After(exc) == IF exc = "none" THEN "returned" ELSE exc

----------------------------------------------------------------------------
(* A caller of solve: it hands over an array, and may hand the array back  *)
(* after blanking some of its cells.                                       *)

BlankCells == {<<1, 1>>, <<1, 9>>, <<2, 1>>, <<2, 9>>, <<5, 5>>}
Alterations == {<<1, 1, 6>>, <<1, 1, 7>>, <<1, 1, 10>>, <<9, 9, 10>>}
ReuseCells == {<<1, 2>>, <<9, 9>>}
BucketInputs == {0, 81}

PartsOfFull == {PutAll(Full, S, 0) : S \in SUBSET BlankCells}

GridInputs ==
    {Zero, Put(Zero, 1, 2, 2), First0}
    \cup PartsOfFull
    \cup {Put(g, t[1], t[2], t[3]) : g \in PartsOfFull, t \in Alterations}

Init ==
    /\ current \in GridInputs
    /\ current_number \in BucketInputs
    /\ given = current
    /\ first = Zero
    /\ hard = Zero
    /\ nz = <<>>
    /\ current_iteration = 0
    /\ solve_time = [b \in 0..(Buckets - 1) |-> 0]
    /\ solve_times = <<>>
    /\ clauses = <<>>
    /\ sol = Unset
    /\ rng = 0
    /\ pc = "ready"

Call ==
    /\ pc = "ready"
    /\ \E cls \in {build_clauses(current)} :
         \E answer \in pycosat_solve(cls), dt \in Durations :
            \E r \in {solve(current, current_number, cls, answer, dt,
                            solve_time, solve_times)} :
               /\ current' = r.grid
               /\ clauses' = r.clauses
               /\ sol' = r.sol
               /\ solve_time' = r.solve_time
               /\ solve_times' = r.solve_times
               /\ given' = current
               /\ pc' = After(r.exc)
    /\ UNCHANGED <<first, hard, nz, current_number, current_iteration, rng>>

Reuse ==
    /\ pc = "returned"
    /\ Len(solve_times) < MaxCalls
    /\ \E S \in SUBSET ReuseCells : current' = PutAll(current, S, 0)
    /\ pc' = "ready"
    /\ UNCHANGED <<first, hard, nz, current_number, current_iteration,
                   solve_time, solve_times, clauses, sol, given, rng>>

Next == Call \/ Reuse

Spec == Init /\ [][Next]_vars

----------------------------------------------------------------------------
(* The experiment: solve the puzzle, then in every trial remove the clues  *)
(* of the puzzle one at a time, at random, solving after each removal.     *)

\* numpy.nonzero: the cells that are not 0, in row-major order
nonzero(g) ==
    SelectSeq([k \in 1..81 |-> <<((k - 1) \div 9) + 1, ((k - 1) % 9) + 1>>],
              LAMBDA c : g[c[1]][c[2]] # 0)

\* random.randint(lo, hi): a number of lo..hi drawn from the generator,
\* here a linear congruential one that the draw advances
randint(lo, hi, r) == lo + (r % (hi - lo + 1))
advance(r) == (5 * r + 3) % 128

Seeds == 0..MaxSeed

\* the assignment lost: no clue is removed
remove_clue_none(h, idx, rand) == h

\* hard[i[rand]][j[rand]] = 0
remove_clue(h, idx, rand) == Put(h, idx[rand + 1][1], idx[rand + 1][2], 0)

Trials == IF iteration_count < MaxIterations THEN iteration_count ELSE MaxIterations

InitDriver ==
    /\ first = First0
    /\ hard = Zero
    /\ current = Zero
    /\ given = Zero
    /\ nz = <<>>
    /\ current_number = 0
    /\ current_iteration = 0
    /\ solve_time = [b \in 0..(Buckets - 1) |-> 0]
    /\ solve_times = <<>>
    /\ clauses = <<>>
    /\ sol = Unset
    /\ rng \in Seeds
    /\ pc = "main"

\* solve(first, 0): the puzzle itself is solved in place
SolveFirst ==
    /\ pc = "main"
    /\ \E cls \in {build_clauses(first)} :
         \E answer \in pycosat_solve(cls), dt \in Durations :
            \E r \in {solve(first, 0, cls, answer, dt, solve_time, solve_times)} :
               /\ first' = r.grid
               /\ clauses' = <<>>
               /\ sol' = r.sol
               /\ solve_time' = r.solve_time
               /\ solve_times' = r.solve_times
               /\ given' = first
               /\ pc' = IF r.exc = "none" THEN "reset" ELSE r.exc
    /\ UNCHANGED <<hard, current, nz, current_number, current_iteration, rng>>

\* the statistics start afresh before the trials
ResetTimes ==
    /\ pc = "reset"
    /\ solve_time' = [b \in 0..(Buckets - 1) |-> 0]
    /\ solve_times' = <<>>
    /\ current_iteration' = 0
    /\ pc' = "for"
    /\ UNCHANGED <<first, hard, current, nz, current_number, clauses, sol, given, rng>>

\* a trial begins: copy the puzzle, solve a copy of it with bucket 0
StartTrial ==
    /\ pc = "for"
    /\ current_iteration < Trials
    /\ \E h \in {first} : \E cls \in {build_clauses(h)} :
         \E answer \in pycosat_solve(cls), dt \in Durations :
            \E r \in {solve(h, 0, cls, answer, dt, solve_time, solve_times)} :
               /\ hard' = h
               /\ current_number' = 0
               /\ current' = r.grid
               /\ clauses' = <<>>
               /\ sol' = r.sol
               /\ solve_time' = r.solve_time
               /\ solve_times' = r.solve_times
               /\ given' = h
               /\ nz' = nonzero(h)
               /\ pc' = IF r.exc = "none" THEN "while" ELSE r.exc
    /\ UNCHANGED <<first, current_iteration, rng>>

\* one turn of the while loop: remove a clue, solve a copy of what is left
RemoveAndSolve ==
    /\ pc = "while"
    /\ Len(nz) # 0
    /\ \E number \in {current_number + 1},
          rand \in {randint(0, Len(nz) - 1, rng)} :
         \E h \in {remove_clue(hard, nz, rand)} : \E cls \in {build_clauses(h)} :
         \E answer \in pycosat_solve(cls), dt \in Durations :
            \E r \in {solve(h, number, cls, answer, dt, solve_time, solve_times)} :
               /\ current_number' = number
               /\ hard' = h
               /\ current' = r.grid
               /\ clauses' = <<>>
               /\ sol' = r.sol
               /\ solve_time' = r.solve_time
               /\ solve_times' = r.solve_times
               /\ given' = h
               /\ nz' = nonzero(h)
               /\ pc' = IF r.exc = "none" THEN "while" ELSE r.exc
    /\ rng' = advance(rng)
    /\ UNCHANGED <<first, current_iteration>>

\* no clue is left: the trial is over
EndTrial ==
    /\ pc = "while"
    /\ Len(nz) = 0
    /\ current_iteration' = current_iteration + 1
    /\ pc' = "for"
    /\ UNCHANGED <<first, hard, current, nz, current_number, solve_time,
                   solve_times, clauses, sol, given, rng>>

\* the trials explored are over
Finish ==
    /\ pc = "for"
    /\ current_iteration >= Trials
    /\ pc' = "done"
    /\ UNCHANGED <<first, hard, current, nz, current_number, current_iteration,
                   solve_time, solve_times, clauses, sol, given, rng>>

NextDriver ==
    SolveFirst \/ ResetTimes \/ StartTrial \/ RemoveAndSolve \/ EndTrial \/ Finish

\* the program is sequential: it keeps running until it ends or raises
SpecDriver == InitDriver /\ [][NextDriver]_vars /\ WF_vars(NextDriver)

----------------------------------------------------------------------------
(* The engine taken as untrusted: any assignment of Assignments comes back, *)
(* whether or not it satisfies the clauses.                                *)

CallUnchecked ==
    /\ pc = "ready"
    /\ \E cls \in {build_clauses(current)} :
         \E a \in Assignments, dt \in Durations :
            \E r \in {solve(current, current_number, cls, Model(a), dt,
                            solve_time, solve_times)} :
               /\ current' = r.grid
               /\ clauses' = r.clauses
               /\ sol' = r.sol
               /\ solve_time' = r.solve_time
               /\ solve_times' = r.solve_times
               /\ given' = current
               /\ pc' = After(r.exc)
    /\ UNCHANGED <<first, hard, nz, current_number, current_iteration, rng>>

NextDecode == CallUnchecked \/ Reuse

SpecDecode == Init /\ [][NextDecode]_vars

----------------------------------------------------------------------------
(* Properties of the encoder, the engine call and the decoder *)

Called == pc # "ready"
Raised == pc \in {"TypeError", "IndexError"}

RowOf(x) == ((x - 1) \div 81) + 1
ColOf(x) == (((x - 1) % 81) \div 9) + 1
DigitOf(x) == ((x - 1) % 9) + 1
CellOf(x) == <<RowOf(x), ColOf(x)>>

Triples == (1..9) \X (1..9) \X (1..9)

\* C1: the clause list submitted for a grid with values in 0..9 is
\* satisfiable (the engine answers with an assignment, not with UNSAT)
\* exactly when the grid has a valid Sudoku completion.
C1_EquiSatisfiable ==
    (Called /\ InRange(given)) => ((sol.tag = "list") <=> HasCompletion(given))

C1_WitnessSat ==
    /\ Called /\ sol.tag = "list"
    /\ given = PutAll(Full, {<<1, 1>>, <<1, 9>>, <<2, 1>>, <<2, 9>>}, 0)
    /\ current = FullSwapped

\* a grid without completion although no digit is given twice in a group
C1_WitnessUnsat ==
    /\ Called /\ sol.tag = "UNSAT"
    /\ given = Put(PutAll(Full, {<<1, 9>>, <<2, 1>>}, 0), 1, 1, 6)

\* C2: when the engine returns an assignment for a grid with values in
\* 0..9, solve returns with the grid a completed valid Sudoku in which
\* every clue of the grid handed in is kept.
C2_SolvedInPlace ==
    (Called /\ InRange(given) /\ sol.tag = "list")
        => (pc = "returned" /\ ValidSudoku(current) /\ Agrees(current, given))

C2_Witness ==
    /\ pc = "returned"
    /\ given = Put(Zero, 1, 2, 2)
    /\ current[1][2] = 2
    /\ current \in {FirstSolA, FirstSolB}

C2_WitnessZero == pc = "returned" /\ given = Zero /\ ValidSudoku(current)

\* the numbering is one-to-one from the triples of 1..9 onto 1..729
NumberingBijective ==
    /\ Cardinality({v(t[1], t[2], t[3]) : t \in Triples}) = Cardinality(Triples)
    /\ {v(t[1], t[2], t[3]) : t \in Triples} = 1..729

\* the variables the base clauses name
BaseVariables ==
    UNION {{Abs(sudoku_clauses[k][n]) : n \in 1..Len(sudoku_clauses[k])} :
           k \in 1..Len(sudoku_clauses)}

\* C3: v is injective on the triples of 1..9, its range is 1..729, and the
\* variables of the clauses and those read back by the decoder are the same:
\* the clauses submitted name exactly 1..729 and every decoded digit d of
\* cell i, j is one whose variable v(i, j, d) the engine asserted.
C3_Numbering ==
    /\ NumberingBijective
    /\ Called =>
         /\ SubSeq(clauses, 1, Len(sudoku_clauses)) = sudoku_clauses
         /\ BaseVariables = 1..729
    /\ pc = "returned" =>
         \A c \in Cells :
            /\ current[c[1]][c[2]] \in 1..9
            /\ v(c[1], c[2], current[c[1]][c[2]]) \in sol.lits
            /\ CellOf(v(c[1], c[2], current[c[1]][c[2]])) = c

C3_Witness == pc = "returned" /\ given = First0 /\ Agrees(current, First0)


BaseCount == 81 * (1 + 36) + 27 * 324

\* the 27 groups in the order their blocks are appended: row 1, column 1,
\* row 2, column 2, ..., then the boxes
GroupAt(n) ==
    IF n <= 18
    THEN (IF n % 2 = 1 THEN Row((n + 1) \div 2) ELSE Col(n \div 2))
    ELSE Box(((n - 19) \div 3) + 1, ((n - 19) % 3) + 1)

AtLeastOne(c) ==
    /\ Len(c) = 9
    /\ \A n \in 1..9 : c[n] > 0
    /\ \E x \in Cells : {c[n] : n \in 1..9} = {y \in 1..729 : CellOf(y) = x}

NotTwoDigits(c) ==
    /\ Len(c) = 2 /\ c[1] < 0 /\ c[2] < 0
    /\ CellOf(-c[1]) = CellOf(-c[2]) /\ DigitOf(-c[1]) # DigitOf(-c[2])

DistinctValue(c, S) ==
    /\ Len(c) = 2 /\ c[1] < 0 /\ c[2] < 0
    /\ DigitOf(-c[1]) = DigitOf(-c[2]) /\ CellOf(-c[1]) # CellOf(-c[2])
    /\ CellOf(-c[1]) \in S /\ CellOf(-c[2]) \in S

\* what the base clauses are made of
BaseClausesShape ==
    LET base == sudoku_clauses
        K == 1..Len(base)
        one == {k \in K : AtLeastOne(base[k])}
        two == {k \in K \ one : NotTwoDigits(base[k])}
        dist == (K \ one) \ two
    IN /\ Cardinality(one) = 81
       /\ Cardinality(two) = 2916
       /\ Cardinality(dist) = 8748
       /\ \A x \in Cells :
            Cardinality({base[37 * (9 * (x[1] - 1) + x[2] - 1) + m] : m \in 2..37}) = 36
       /\ \A x \in Cells : \A m \in 2..37 :
            LET k == 37 * (9 * (x[1] - 1) + x[2] - 1) + m
            IN k \in two /\ CellOf(-base[k][1]) = x
       /\ \A n \in 1..27 :
            LET block == {2997 + 324 * (n - 1) + m : m \in 1..324}
            IN /\ block \subseteq dist
               /\ \A k \in block : DistinctValue(base[k], GroupAt(n))
               /\ Cardinality({base[k] : k \in block}) = 324

\* C4: the clauses every call starts from are 11745: 81 clauses of the 9
\* positive literals of a cell, 2916 two-literal clauses against two digits
\* in a cell (36 per cell), and 8748 two-literal clauses against a digit
\* twice in a group (324 different ones for each of the 27 groups),
\* whatever the puzzle and whatever was solved before.
C4_BaseClauses ==
    /\ Len(sudoku_clauses) = 11745
    /\ BaseCount = 11745
    /\ BaseClausesShape
    /\ Called =>
         /\ Len(clauses) >= 11745
         /\ SubSeq(clauses, 1, 11745) = sudoku_clauses

C4_Witness ==
    /\ pc = "returned" /\ Len(solve_times) = 2
    /\ Len(clauses) = BaseCount + 80

\* C5, as claimed: when the engine reports unsatisfiable, solve does not
\* raise and leaves the grid as it was handed in.
C5_UnsatisfiableOutcome ==
    (Called /\ sol.tag = "UNSAT") => (~Raised /\ current = given)

\* the digits of cell c the assignment asserts
Asserted(a, c) == {d \in 1..9 : (81 * (c[1] - 1) + 9 * (c[2] - 1) + d) \in a}

\* C6, as claimed: when the returned assignment asserts no digit or several
\* digits for some cell, solve does not return normally and leaves the grid
\* as it was handed in.
C6_DecodeFailsFast ==
    (Called /\ sol.tag = "list"
        /\ \E c \in Cells : Cardinality(Asserted(sol.lits, c)) # 1)
        => (pc # "returned" /\ current = given)

\* C7, as claimed: a grid with a value outside 0..9 is rejected before
\* encoding: no clause list is built from it, the engine is not called and
\* the grid is not modified.
C7_MalformedRejected ==
    (Called /\ ~InRange(given))
        => (clauses = <<>> /\ sol = Unset /\ current = given)

\* C9: the list submitted is the 11745 base clauses followed by exactly one
\* unit clause [v(i, j, d)] for each nonzero cell of the grid handed in (in
\* row-major order), nothing for a blank cell and nothing from earlier calls.
C9_ClueInjection ==
    Called =>
        LET clues == NonZero(given)
            n == Cardinality(clues)
            rank(c) == Cardinality({x \in clues : 9 * x[1] + x[2] < 9 * c[1] + c[2]})
        IN /\ Len(clauses) = 11745 + n
           /\ SubSeq(clauses, 1, 11745) = sudoku_clauses
           /\ \A c \in clues :
                clauses[11745 + rank(c) + 1] =
                    <<81 * (c[1] - 1) + 9 * (c[2] - 1) + given[c[1]][c[2]]>>

C9_Witness ==
    /\ pc = "returned" /\ Len(solve_times) = 2
    /\ Len(clauses) = 11745 + 79
    /\ given[1][2] = 0 /\ given[9][9] = 0

----------------------------------------------------------------------------
(* Properties of the experiment *)

Clues(g) == Cardinality(NonZero(g))

\* C8, as claimed: the bucket index of every solve call of a trial is the
\* number of clue cells the puzzle holds at the time of the call.
C8_BucketIsClueCount ==
    pc = "while" => current_number = Clues(given)

\* C8, amended: the bucket index of every solve call of a trial is the
\* number of clues removed from the puzzle so far in the trial (the clues
\* the trial began with, less those the puzzle holds at the call); it is in
\* 0..81, and each bucket has been charged once per call made with that
\* many clues removed.
C8_BucketIsRemovedCount ==
    pc = "while" =>
        LET removed == Clues(first) - Clues(given)
        IN /\ current_number = removed
           /\ current_number \in 0..81
           /\ \A b \in 0..81 :
                solve_time[b] = current_iteration + (IF b <= removed THEN 1 ELSE 0)

C8_Witness ==
    /\ pc = "while"
    /\ Clues(given) = 50
    /\ current_number = 31
    /\ solve_time[31] = 1 /\ solve_time[50] = 0

\* C10: every trial ends; every turn of its loop blanks exactly one cell of
\* the puzzle that held a clue, so the clues decrease by exactly one, and
\* solves what is left; a trial on a puzzle of n clues calls solve n + 1
\* times, the last time on the all-zero grid; no trial modifies first.
C10_TrialTerminates ==
    /\ (pc = "while") ~> (pc = "for")
    /\ [][pc = "while" =>
            \/ /\ pc' = "for" /\ hard = Zero /\ given = Zero /\ hard' = hard
            \/ /\ pc' = "while"
               /\ \E c \in NonZero(hard) : hard' = Put(hard, c[1], c[2], 0)
               /\ Clues(hard') = Clues(hard) - 1
               /\ given' = hard'
               /\ Len(solve_times') = Len(solve_times) + 1]_vars
    /\ [][(pc = "for" \/ pc = "while") => first' = first]_vars
    /\ [](pc = "for" =>
            /\ Len(solve_times) = current_iteration * (Clues(first) + 1)
            /\ current_iteration > 0 => (hard = Zero /\ given = Zero))

C10_Witness ==
    /\ pc = "for"
    /\ current_iteration = 1
    /\ Len(solve_times) = 82
    /\ hard = Zero /\ given = Zero
    /\ first \in {FirstSolA, FirstSolB}

====
